---- MODULE Spec2Model ----
(***************************************************************************)
(* A model of pokemon-go-events (src/main.py): the process-wide event      *)
(* cache with its refresh guard, and the classification / slide            *)
(* composition pipeline of get_events.                                     *)
(*                                                                         *)
(* Text is a sequence of one-character strings, so that strip, whitespace  *)
(* collapsing, casefold and code-point ordering are computed, not assumed. *)
(* Instants are whole hours since the epoch (UTC).  An optional value is   *)
(* a sequence of length 0 (None) or 1.                                     *)
(***************************************************************************)
EXTENDS Integers, Sequences, FiniteSets, TLC

(***************************************************************************)
(* Text                                                                    *)
(***************************************************************************)
CodePoint ==
    ("\t" :> 9) @@ (" " :> 32) @@ ("+" :> 43) @@ ("A" :> 65) @@ ("B" :> 66) @@ ("C" :> 67) @@ ("D" :> 68) @@ ("E" :> 69) @@ ("F" :> 70) @@ ("G" :> 71) @@ ("H" :> 72) @@ ("I" :> 73) @@ ("J" :> 74) @@ ("K" :> 75) @@ ("L" :> 76) @@ ("M" :> 77) @@ ("N" :> 78) @@ ("O" :> 79) @@ ("P" :> 80) @@ ("Q" :> 81) @@ ("R" :> 82) @@ ("S" :> 83) @@ ("T" :> 84) @@ ("U" :> 85) @@ ("V" :> 86) @@ ("W" :> 87) @@ ("X" :> 88) @@ ("Y" :> 89) @@ ("Z" :> 90) @@ ("a" :> 97) @@ ("b" :> 98) @@ ("c" :> 99) @@ ("d" :> 100) @@ ("e" :> 101) @@ ("f" :> 102) @@ ("g" :> 103) @@ ("h" :> 104) @@ ("i" :> 105) @@ ("j" :> 106) @@ ("k" :> 107) @@ ("l" :> 108) @@ ("m" :> 109) @@ ("n" :> 110) @@ ("o" :> 111) @@ ("p" :> 112) @@ ("q" :> 113) @@ ("r" :> 114) @@ ("s" :> 115) @@ ("t" :> 116) @@ ("u" :> 117) @@ ("v" :> 118) @@ ("w" :> 119) @@ ("x" :> 120) @@ ("y" :> 121) @@ ("z" :> 122)

S_Other == <<"O", "t", "h", "e", "r">>
S_Event == <<"E", "v", "e", "n", "t">>
S_Events == <<"E", "v", "e", "n", "t", "s">>
S_Season == <<"S", "e", "a", "s", "o", "n">>
S_GOPass == <<"G", "O", " ", "P", "a", "s", "s">>
S_Research == <<"R", "e", "s", "e", "a", "r", "c", "h">>
S_TimedResearch == <<"T", "i", "m", "e", "d", " ", "R", "e", "s", "e", "a", "r", "c", "h">>
S_RaidBattles == <<"R", "a", "i", "d", " ", "B", "a", "t", "t", "l", "e", "s">>
S_TradeDay == <<"T", "r", "a", "d", "e", " ", "D", "a", "y">>
S_Current == <<"C", "u", "r", "r", "e", "n", "t">>
S_CurrentSp == <<"C", "u", "r", "r", "e", "n", "t", " ">>
S_CurrentResearch == <<"C", "u", "r", "r", "e", "n", "t", " ", "r", "e", "s", "e", "a", "r", "c", "h">>
S_CurrentRaidBattles == <<"C", "u", "r", "r", "e", "n", "t", " ", "R", "a", "i", "d", " ", "B", "a", "t", "t", "l", "e", "s">>
S_ResearchPlus == <<"R", "e", "s", "e", "a", "r", "c", "h", " ", "+", " ", "T", "i", "m", "e", "d", " ", "R", "e", "s", "e", "a", "r", "c", "h">>
S_UpcomingEvents == <<"U", "p", "c", "o", "m", "i", "n", "g", " ", "e", "v", "e", "n", "t", "s">>
S_NoCurrentEvents == <<"N", "o", " ", "c", "u", "r", "r", "e", "n", "t", " ", "e", "v", "e", "n", "t", "s">>
\* f"Next {UPCOMING_WINDOW_DAYS} days"
S_NextDays == <<"N", "e", "x", "t", " ", "3", "0", " ", "d", "a", "y", "s">>
S_PokemonGO == <<"P", "o", "k", "e", "m", "o", "n", " ", "G", "O">>
S_go_battle_league == <<"g", "o", " ", "b", "a", "t", "t", "l", "e", " ", "l", "e", "a", "g", "u", "e">>

\* Python's None where a str is expected: a one-element text whose element
\* is no character.
NoneStr == <<"<None>">>

\* `s or ""`
OrEmpty(s) == IF s = NoneStr THEN <<>> ELSE s

IsSpace(c) == c \in {" ", "\t"}

\* str.strip()
Strip(s) ==
    LET idx == {i \in 1..Len(s) : ~IsSpace(s[i])}
    IN  IF idx = {} THEN <<>>
        ELSE LET lo == CHOOSE i \in idx : \A j \in idx : i <= j
                 hi == CHOOSE i \in idx : \A j \in idx : j <= i
             IN  SubSeq(s, lo, hi)

\* re.sub(r"\s+", " ", t): every maximal run of whitespace becomes one space.
RECURSIVE CollapseSpaces(_)
CollapseSpaces(t) ==
    IF t = <<>> THEN <<>>
    ELSE LET rest == CollapseSpaces(Tail(t))
         IN  IF ~IsSpace(Head(t)) THEN <<Head(t)>> \o rest
             ELSE IF rest # <<>> /\ rest[1] = " " THEN rest
             ELSE <<" ">> \o rest

\* str.casefold() on the characters of the alphabet: upper case to lower case.
CaseFoldChar(c) ==
    IF CodePoint[c] >= 65 /\ CodePoint[c] <= 90
    THEN CHOOSE d \in DOMAIN CodePoint : CodePoint[d] = CodePoint[c] + 32
    ELSE c

CaseFold(s) == [i \in 1..Len(s) |-> CaseFoldChar(s[i])]

\* Python's str < str: lexicographic by code point, a proper prefix first.
StrLess(a, b) ==
    \E k \in 1..(Len(a) + 1) :
        /\ k <= Len(b)
        /\ \A i \in 1..(k - 1) : a[i] = b[i]
        /\ \/ k = Len(a) + 1
           \/ k <= Len(a) /\ CodePoint[a[k]] < CodePoint[b[k]]

(***************************************************************************)
(* Module constants of main.py                                             *)
(***************************************************************************)
EXCLUDED_HEADINGS == {S_go_battle_league}

UPCOMING_WINDOW_DAYS == 30

HoursPerDay == 24

\* strftime("%b %d, %H:%M") prints no year.
DaysPerYear == 365

\* datetime.weekday(): Monday is 0 and Sunday is 6; 1970-01-01 was a Thursday.
SundayWeekday == 6

EpochWeekday == 3

\* The server's local zone, in hours east of UTC (datetime.now().astimezone()).
LocalUtcOffset == 2

DefaultImage == "https://cdn.leekduck.com/assets/img/events/events-default-img.jpg"

EventsUrl == "https://leekduck.com/events/"

(***************************************************************************)
(* Timestamps.  A date string is a record: kind "none" (absent), "empty",  *)
(* "garbage" (dateutil raises), "naive" (no zone: wall is taken as UTC) or *)
(* "aware" (wall is local to a zone off hours east of UTC).                *)
(***************************************************************************)
DateStr(kind, wall, off) == [kind |-> kind, wall |-> wall, off |-> off]

NoDate == DateStr("none", 0, 0)

\* _parse_dt_utc: <<>> is None, <<t>> the instant in UTC.
ParseDtUtc(date_str) ==
    IF date_str.kind \in {"none", "empty"} THEN <<>>
    ELSE IF date_str.kind = "garbage" THEN <<>>
    ELSE IF date_str.kind = "naive" THEN <<date_str.wall>>
    ELSE <<date_str.wall - date_str.off>>

\* format_date: month-day and hour of the instant, or the raw string.
FormatDate(date_str) ==
    LET dt == ParseDtUtc(date_str)
    IN  IF dt = <<>>
        THEN [fmt |-> FALSE, md |-> 0, hm |-> 0, raw |-> date_str.kind]
        ELSE [fmt |-> TRUE, md |-> (dt[1] \div HoursPerDay) % DaysPerYear,
              hm |-> dt[1] % HoursPerDay, raw |-> "none"]

\* _norm_heading
NormHeading(s) == CollapseSpaces(Strip(OrEmpty(s)))

\* _is_excluded_heading
IsExcludedHeading(heading) == CaseFold(NormHeading(heading)) \in EXCLUDED_HEADINGS

\* `_norm_heading(ev.get("heading")) or "Other"`
HeadingOf(ev) ==
    LET h == NormHeading(ev.heading) IN IF h = <<>> THEN S_Other ELSE h

\* _event_to_list_item (value_override is never passed).
EventToListItem(event, subtitle_override) ==
    [title    |-> Strip(OrEmpty(event.name)),
     subtitle |-> Strip(OrEmpty(subtitle_override)),
     imageUrl |-> event.image,
     value    |-> <<FormatDate(event.start), FormatDate(event.end)>>,
     url      |-> event.link]

(***************************************************************************)
(* Sorting.  list.sort(key=...) is stable; a key is a tuple of an instant  *)
(* and up to two texts, compared as Python compares tuples.                *)
(***************************************************************************)
SortKey(t, s1, s2) == [t |-> t, s1 |-> s1, s2 |-> s2]

KeyLeq(a, b) ==
    \/ a.t < b.t
    \/ /\ a.t = b.t
       /\ \/ StrLess(a.s1, b.s1)
          \/ a.s1 = b.s1 /\ (StrLess(a.s2, b.s2) \/ a.s2 = b.s2)

\* A broken sort (the list is left in insertion order).
SortKeyed_Unsorted(s) == s

\* Stable sort of a sequence of [key, val] by key: an entry goes after every
\* entry of a smaller key and after the earlier entries of an equal key.
SortKeyed(s) ==
    LET n    == Len(s)
        keys == SubSeq([i \in 1..n |-> s[i].key], 1, n)
        rank == SubSeq([i \in 1..n |->
                    Cardinality({j \in 1..n :
                        \/ ~KeyLeq(keys[i], keys[j])
                        \/ j <= i /\ KeyLeq(keys[j], keys[i])})], 1, n)
        at   == SubSeq([r \in 1..n |-> CHOOSE i \in 1..n : rank[i] = r], 1, n)
    IN  [r \in 1..n |-> s[at[r]]]

Vals(s) == [i \in 1..Len(s) |-> s[i].val]

\* s[:n]
Take(s, n) == SubSeq(s, 1, IF Len(s) < n THEN Len(s) ELSE n)

(***************************************************************************)
(* get_events, lines 119-136: the classifier                               *)
(***************************************************************************)
\* A classifier that takes an event starting at `now` for not yet started.
Classify_StrictStart(event, now) ==
    LET start_dt == ParseDtUtc(event.start)
        end_dt   == ParseDtUtc(event.end)
    IN  IF start_dt = <<>> \/ end_dt = <<>> THEN "discard"
        ELSE IF IsExcludedHeading(event.heading) THEN "discard"
        ELSE IF start_dt[1] < now /\ now <= end_dt[1] THEN "current"
        ELSE IF start_dt[1] > now
                /\ start_dt[1] <= now + UPCOMING_WINDOW_DAYS * HoursPerDay
             THEN "upcoming"
        ELSE "discard"

Classify(event, now) ==
    LET start_dt        == ParseDtUtc(event.start)
        end_dt          == ParseDtUtc(event.end)
        upcoming_cutoff == now + UPCOMING_WINDOW_DAYS * HoursPerDay
    IN  IF start_dt = <<>> \/ end_dt = <<>> THEN "discard"
        ELSE IF IsExcludedHeading(event.heading) THEN "discard"
        ELSE IF start_dt[1] <= now /\ now <= end_dt[1] THEN "current"
        ELSE IF start_dt[1] > now /\ start_dt[1] <= upcoming_cutoff THEN "upcoming"
        ELSE "discard"

SelectClass(raw_events, now, class) ==
    SelectSeq(raw_events, LAMBDA event : Classify(event, now) = class)

CurrentEvents(raw_events, now) == SelectClass(raw_events, now, "current")

UpcomingEvents(raw_events, now) == SelectClass(raw_events, now, "upcoming")

(***************************************************************************)
(* get_events, lines 138-170: grouping, the Sunday item, in-group sorting. *)
(* A dict is the sequence of its [key, evs] entries in insertion order.    *)
(***************************************************************************)
HasKey(grouped, k) == \E i \in 1..Len(grouped) : grouped[i].key = k

\* grouped.setdefault(k, []).append(ev)
SetDefaultAppend(grouped, k, ev) ==
    IF HasKey(grouped, k)
    THEN [i \in 1..Len(grouped) |->
            IF grouped[i].key = k
            THEN [key |-> k, evs |-> Append(grouped[i].evs, ev)]
            ELSE grouped[i]]
    ELSE Append(grouped, [key |-> k, evs |-> <<ev>>])

\* grouped.pop(k, []): the value popped ...
PopValue(grouped, k) ==
    IF HasKey(grouped, k)
    THEN grouped[CHOOSE i \in 1..Len(grouped) : grouped[i].key = k].evs
    ELSE <<>>

\* ... and the dict left.
PopRest(grouped, k) == SelectSeq(grouped, LAMBDA g : g.key # k)

\* lines 139-142
GroupByHeading(evs) ==
    LET hs     == [i \in 1..Len(evs) |-> HeadingOf(evs[i])]
        ix     == [i \in 1..Len(evs) |-> i]
        firsts == SelectSeq(ix, LAMBDA i : \A j \in 1..(i - 1) : hs[j] # hs[i])
        of(h)  == SelectSeq(ix, LAMBDA i : hs[i] = h)
    IN  [k \in 1..Len(firsts) |->
            [key |-> hs[firsts[k]],
             evs |-> LET m == of(hs[firsts[k]]) IN [j \in 1..Len(m) |-> evs[m[j]]]]]

\* local_now.weekday() == 6, the local zone being LocalUtcOffset hours east.
IsSunday(now) ==
    (((now + LocalUtcOffset) \div HoursPerDay) + EpochWeekday) % 7 = SundayWeekday

TradeDay(target_heading) ==
    [name |-> S_TradeDay, heading |-> target_heading, start |-> NoDate,
     end |-> NoDate, image |-> DefaultImage, link |-> EventsUrl]

\* lines 147-157
WithTradeDay(grouped_current, now) ==
    IF IsSunday(now)
    THEN LET target_heading == IF HasKey(grouped_current, S_Event) THEN S_Event ELSE S_Events
         IN  SetDefaultAppend(grouped_current, target_heading, TradeDay(target_heading))
    ELSE grouped_current

\* `_parse_dt_utc(e.get("end")) or now`
EndOrNow(e, now) == LET d == ParseDtUtc(e.end) IN IF d = <<>> THEN now ELSE d[1]

StartOrNow(e, now) == LET d == ParseDtUtc(e.start) IN IF d = <<>> THEN now ELSE d[1]

\* evs.sort(key=end or now), line 168
SortByEnd(evs, now) ==
    Vals(SortKeyed([i \in 1..Len(evs) |->
        [key |-> SortKey(EndOrNow(evs[i], now), <<>>, <<>>), val |-> evs[i]]]))

\* grouped_current as it stands at line 172.
GroupedCurrent(raw_events, now) ==
    LET g == WithTradeDay(GroupByHeading(CurrentEvents(raw_events, now)), now)
    IN  [i \in 1..Len(g) |-> [key |-> g[i].key, evs |-> SortByEnd(g[i].evs, now)]]

(***************************************************************************)
(* get_events, lines 172-271: the slide sequence                           *)
(***************************************************************************)
\* The slices [:5] and [:10], and the maxItems the two uncut slides carry.
SPLIT_ITEMS == 5

GROUP_ITEMS == 10

RESEARCH_MAX_ITEMS == 50

UPCOMING_MAX_ITEMS == 200

\* [_event_to_list_item(e) for e in evs]
Items(evs) == [i \in 1..Len(evs) |-> EventToListItem(evs[i], NoneStr)]

\* lines 175-189
SplitSlides(grouped) ==
    LET season  == PopValue(grouped, S_Season)
        go_pass == PopValue(grouped, S_GOPass)
    IN  IF season # <<>> \/ go_pass # <<>>
        THEN <<[type          |-> "split-slide",
                title         |-> S_GOPass,
                subtitle      |-> S_Current,
                items         |-> Take(Items(go_pass), SPLIT_ITEMS),
                rightTitle    |-> S_Season,
                rightSubtitle |-> S_Current,
                rightItems    |-> Take(Items(season), SPLIT_ITEMS),
                url           |-> EventsUrl]>>
        ELSE <<>>

AfterSplit(grouped) == PopRest(PopRest(grouped, S_Season), S_GOPass)

\* lines 195-196: the (label, event) pairs, sorted by (end, label, name).
ResearchCombined(grouped, now) ==
    LET research       == PopValue(grouped, S_Research)
        timed_research == PopValue(grouped, S_TimedResearch)
        combined == [i \in 1..Len(research) |-> [label |-> S_Research, e |-> research[i]]]
                    \o [i \in 1..Len(timed_research) |->
                            [label |-> S_TimedResearch, e |-> timed_research[i]]]
    IN  Vals(SortKeyed([i \in 1..Len(combined) |->
            [key |-> SortKey(EndOrNow(combined[i].e, now), combined[i].label,
                             OrEmpty(combined[i].e.name)),
             val |-> combined[i]]]))

\* lines 192-205
ResearchSlides(grouped, now) ==
    LET combined == ResearchCombined(grouped, now)
    IN  IF combined # <<>>
        THEN <<[title    |-> S_CurrentResearch,
                subtitle |-> S_ResearchPlus,
                maxItems |-> RESEARCH_MAX_ITEMS,
                items    |-> [i \in 1..Len(combined) |->
                                EventToListItem(combined[i].e, combined[i].label)],
                url      |-> EventsUrl]>>
        ELSE <<>>

AfterResearch(grouped) == PopRest(PopRest(grouped, S_Research), S_TimedResearch)

\* A [:10] that was forgotten.
GroupSlide_Uncut(title, subtitle, evs) ==
    [title |-> title, subtitle |-> subtitle, items |-> Items(evs), url |-> EventsUrl]

\* lines 210-216 and 224-230: a slide of one current group.
GroupSlide(title, subtitle, evs) ==
    [title    |-> title,
     subtitle |-> subtitle,
     items    |-> Take(Items(evs), GROUP_ITEMS),
     url      |-> EventsUrl]

\* lines 208-217
RaidSlides(grouped) ==
    LET raid == PopValue(grouped, S_RaidBattles)
    IN  IF raid # <<>>
        THEN <<GroupSlide(S_CurrentRaidBattles, S_RaidBattles, raid)>>
        ELSE <<>>

AfterRaid(grouped) == PopRest(grouped, S_RaidBattles)

\* The keys in insertion order (iterating the dict, not sorted(...)).
SortedKeys_Insertion(grouped) == [i \in 1..Len(grouped) |-> grouped[i].key]

\* sorted(grouped_current.keys()), line 220
SortedKeys(grouped) ==
    Vals(SortKeyed([i \in 1..Len(grouped) |->
        [key |-> SortKey(0, grouped[i].key, <<>>), val |-> grouped[i].key]]))

\* lines 220-231: the groups left, by heading; an empty group gives no slide.
RemainingSlides(grouped) ==
    LET keys == SortedKeys(grouped)
        live == SelectSeq(keys, LAMBDA h : PopValue(grouped, h) # <<>>)
    IN  [i \in 1..Len(live) |->
            GroupSlide(S_CurrentSp \o live[i], live[i], PopValue(grouped, live[i]))]

\* lines 235-241: upcoming_events after its sort.
UpcomingSorted(raw_events, now) ==
    LET upcoming_events == UpcomingEvents(raw_events, now)
    IN  Vals(SortKeyed([i \in 1..Len(upcoming_events) |->
            [key |-> SortKey(StartOrNow(upcoming_events[i], now),
                             HeadingOf(upcoming_events[i]),
                             OrEmpty(upcoming_events[i].name)),
             val |-> upcoming_events[i]]]))

\* lines 234-256
UpcomingSlides(raw_events, now) ==
    LET upcoming_events == UpcomingSorted(raw_events, now)
    IN  IF upcoming_events # <<>>
        THEN <<[title    |-> S_UpcomingEvents,
                subtitle |-> S_NextDays,
                maxItems |-> UPCOMING_MAX_ITEMS,
                items    |-> [i \in 1..Len(upcoming_events) |->
                                EventToListItem(upcoming_events[i],
                                                HeadingOf(upcoming_events[i]))],
                url      |-> EventsUrl]>>
        ELSE <<>>

\* lines 259-269
NoEventsSlide ==
    [title    |-> S_NoCurrentEvents,
     subtitle |-> S_PokemonGO,
     value    |-> "No active events right now",
     imageUrl |-> DefaultImage,
     url      |-> EventsUrl]

\* A composer without the placeholder slide.
Fallback_None(slides) == slides

\* lines 258-271
Fallback(slides) == IF slides = <<>> THEN <<NoEventsSlide>> ELSE slides

\* get_events from line 119 on: the value of "slides" in the response.
ComposeSlides(raw_events, now) ==
    LET g0 == GroupedCurrent(raw_events, now)
        g1 == AfterSplit(g0)
        g2 == AfterResearch(g1)
        g3 == AfterRaid(g2)
    IN  Fallback(SplitSlides(g0) \o ResearchSlides(g1, now) \o RaidSlides(g2)
                 \o RemainingSlides(g3) \o UpcomingSlides(raw_events, now))

(***************************************************************************)
(* Inputs: feed events, the feeds a fetch may return, the instants the     *)
(* clock takes.  60 is a Saturday noon UTC; 71 is Saturday 23:00 UTC and   *)
(* already Sunday in the local zone; 80 is a Sunday morning.               *)
(***************************************************************************)
Naive(t) == DateStr("naive", t, 0)

Aware(wall, off) == DateStr("aware", wall, off)

Event(name, heading, start, end) ==
    [name |-> name, heading |-> heading, start |-> start, end |-> end,
     image |-> "https://cdn.leekduck.com/event.jpg", link |-> "https://leekduck.com/events/x/"]

Instants == {60, 80}

\* The bodies the feed may serve in the concurrent specification.
Feeds ==
    {<<>>,
     <<Event(<<"B">>, S_RaidBattles, Naive(75), Naive(90)),
       Event(<<"A">>, S_Event, Naive(50), Naive(70))>>}

\* The number of request-handling threads.
NumThreads == 2

Threads == 1..NumThreads

(***************************************************************************)
(* State                                                                   *)
(***************************************************************************)
VARIABLES
    events_cache,         \* [events, last_updated]: the dict of line 26
    refresh_in_progress,  \* _refresh_in_progress
    cache_lock,           \* _cache_lock: 0 when free, else the holding thread
    clock,                \* the wall clock, datetime.now(timezone.utc)
    pc,                   \* per thread: the line it is about to execute
    frame,                \* per thread: the locals of its call
    response,             \* per thread: what its call returned
    seen                  \* history: the (busy flag, last_updated) pairs the cache has held

vars == <<events_cache, refresh_in_progress, cache_lock, clock, pc, frame, response, seen>>

None == <<>>

IdleFrame ==
    [op |-> "none", raw_events |-> <<>>, data |-> <<>>, fetch_failed |-> FALSE,
     did_start |-> FALSE, in_progress |-> FALSE, now |-> 0]

NoResponse == [kind |-> "none"]

Init ==
    /\ events_cache = [events |-> <<>>, last_updated |-> None]
    /\ refresh_in_progress = FALSE
    /\ cache_lock = 0
    /\ clock \in Instants
    /\ pc = [t \in Threads |-> "idle"]
    /\ frame = [t \in Threads |-> IdleFrame]
    /\ response = [t \in Threads |-> NoResponse]
    /\ seen = {<<FALSE, None>>}

(***************************************************************************)
(* Operations                                                              *)
(***************************************************************************)
\* A request GET /api/events arrives on thread t.
CallGetEvents(t) ==
    /\ pc[t] = "idle"
    /\ pc' = [pc EXCEPT ![t] = "get_events_115"]
    /\ frame' = [frame EXCEPT ![t] = [IdleFrame EXCEPT !.op = "get_events"]]
    /\ response' = [response EXCEPT ![t] = NoResponse]
    /\ UNCHANGED <<events_cache, refresh_in_progress, cache_lock, clock, seen>>

\* A request POST /api/refresh arrives on thread t: refresh_now calls refresh_cache.
CallRefreshNow(t) ==
    /\ pc[t] = "idle"
    /\ pc' = [pc EXCEPT ![t] = "refresh_cache_45"]
    /\ frame' = [frame EXCEPT ![t] = [IdleFrame EXCEPT !.op = "refresh_now"]]
    /\ response' = [response EXCEPT ![t] = NoResponse]
    /\ UNCHANGED <<events_cache, refresh_in_progress, cache_lock, clock, seen>>

\* A read that refreshed whatever the cache held.
NeedsRefresh_Always(raw_events) == TRUE

\* `if not raw_events:` (line 116)
NeedsRefresh(raw_events) == raw_events = <<>>

\* lines 115-117: read the cached list without the lock; refresh if it is empty.
GetEvents115(t) ==
    /\ pc[t] = "get_events_115"
    /\ frame' = [frame EXCEPT ![t].raw_events = events_cache.events]
    /\ pc' = [pc EXCEPT ![t] = IF NeedsRefresh(events_cache.events)
                               THEN "refresh_cache_45" ELSE "get_events_119"]
    /\ UNCHANGED <<events_cache, refresh_in_progress, cache_lock, clock, response, seen>>

\* Where refresh_cache returns to.
ReturnSite(t) == IF frame[t].op = "get_events" THEN "get_events_118" ELSE "refresh_now_279"

\* refresh_cache returns: its locals are gone; refresh_now keeps the result
\* in did_start, get_events drops it (line 117).
AfterRefreshCache(f, result) ==
    [f EXCEPT !.data = <<>>, !.fetch_failed = FALSE,
              !.did_start = IF f.op = "refresh_now" THEN result ELSE FALSE]

\* A guard that does not look at the busy flag.
Busy_Ignored(flag) == FALSE

\* `if _refresh_in_progress:` (line 46)
Busy(flag) == flag

\* lines 45-48, under the lock: return False if a refresh runs, else set the flag.
RefreshCache45(t) ==
    /\ pc[t] = "refresh_cache_45"
    /\ cache_lock = 0
    /\ IF Busy(refresh_in_progress)
       THEN /\ frame' = [frame EXCEPT ![t] = AfterRefreshCache(frame[t], FALSE)]
            /\ pc' = [pc EXCEPT ![t] = ReturnSite(t)]
            /\ UNCHANGED <<refresh_in_progress, seen>>
       ELSE /\ refresh_in_progress' = TRUE
            /\ pc' = [pc EXCEPT ![t] = "fetch_events"]
            /\ seen' = seen \cup {<<TRUE, events_cache.last_updated>>}
            /\ UNCHANGED frame
    /\ UNCHANGED <<events_cache, cache_lock, clock, response>>

\* lines 33-40 and 51: the GET is in flight while pc is "fetch_events"; it
\* ends with a body of the feed, or with an error that fetch_events turns into [].
FetchEvents(t) ==
    /\ pc[t] = "fetch_events"
    /\ \E failed \in BOOLEAN, body \in Feeds :
          /\ failed => body = <<>>
          /\ frame' = [frame EXCEPT ![t].data = body, ![t].fetch_failed = failed]
    /\ pc' = [pc EXCEPT ![t] = "refresh_cache_52"]
    /\ UNCHANGED <<events_cache, refresh_in_progress, cache_lock, clock, response, seen>>

\* lines 52-53: take the lock, store the list.
RefreshCache52(t) ==
    /\ pc[t] = "refresh_cache_52"
    /\ cache_lock = 0
    /\ cache_lock' = t
    /\ events_cache' = [events_cache EXCEPT !.events = frame[t].data]
    /\ pc' = [pc EXCEPT ![t] = "refresh_cache_54"]
    /\ UNCHANGED <<refresh_in_progress, clock, frame, response, seen>>

\* line 54: store the timestamp, release the lock.
RefreshCache54(t) ==
    /\ pc[t] = "refresh_cache_54"
    /\ cache_lock = t
    /\ events_cache' = [events_cache EXCEPT !.last_updated = <<clock>>]
    /\ cache_lock' = 0
    /\ seen' = seen \cup {<<refresh_in_progress, <<clock>>>>}
    /\ pc' = [pc EXCEPT ![t] = "refresh_cache_57"]
    /\ UNCHANGED <<refresh_in_progress, clock, frame, response>>

\* A finally block that leaves the flag as it is.
FlagAfterRefresh_Kept(flag) == flag

\* line 58
FlagAfterRefresh(flag) == FALSE

\* lines 55-58: `return True` runs the finally block, which clears the flag
\* under the lock.
RefreshCache57(t) ==
    /\ pc[t] = "refresh_cache_57"
    /\ cache_lock = 0
    /\ refresh_in_progress' = FlagAfterRefresh(refresh_in_progress)
    /\ seen' = seen \cup {<<refresh_in_progress', events_cache.last_updated>>}
    /\ frame' = [frame EXCEPT ![t] = AfterRefreshCache(frame[t], TRUE)]
    /\ pc' = [pc EXCEPT ![t] = ReturnSite(t)]
    /\ UNCHANGED <<events_cache, cache_lock, clock, response>>

\* line 118: read the cached list again, without the lock.
GetEvents118(t) ==
    /\ pc[t] = "get_events_118"
    /\ frame' = [frame EXCEPT ![t].raw_events = events_cache.events]
    /\ pc' = [pc EXCEPT ![t] = "get_events_119"]
    /\ UNCHANGED <<events_cache, refresh_in_progress, cache_lock, clock, response, seen>>

\* lines 119-271: read the clock, compose, return.
GetEvents119(t) ==
    /\ pc[t] = "get_events_119"
    /\ frame' = [frame EXCEPT ![t].now = clock]
    /\ response' = [response EXCEPT ![t] =
                        [kind |-> "slides", slides |-> ComposeSlides(frame[t].raw_events, clock)]]
    /\ pc' = [pc EXCEPT ![t] = "returned"]
    /\ UNCHANGED <<events_cache, refresh_in_progress, cache_lock, clock, seen>>

\* line 279: read the flag, without the lock.
RefreshNow279(t) ==
    /\ pc[t] = "refresh_now_279"
    /\ frame' = [frame EXCEPT ![t].in_progress = refresh_in_progress]
    /\ pc' = [pc EXCEPT ![t] = "refresh_now_280"]
    /\ UNCHANGED <<events_cache, refresh_in_progress, cache_lock, clock, response, seen>>

\* lines 277-281: read last_updated, without the lock, and return.
RefreshNow280(t) ==
    /\ pc[t] = "refresh_now_280"
    /\ response' = [response EXCEPT ![t] =
                        [kind         |-> "refresh",
                         status       |-> IF frame[t].did_start THEN "ok" ELSE "already_running",
                         in_progress  |-> frame[t].in_progress,
                         last_updated |-> events_cache.last_updated]]
    /\ pc' = [pc EXCEPT ![t] = "returned"]
    /\ UNCHANGED <<events_cache, refresh_in_progress, cache_lock, clock, frame, seen>>

\* The response is sent; the thread is free for the next request.
Return(t) ==
    /\ pc[t] = "returned"
    /\ pc' = [pc EXCEPT ![t] = "idle"]
    /\ frame' = [frame EXCEPT ![t] = IdleFrame]
    /\ response' = [response EXCEPT ![t] = NoResponse]
    /\ UNCHANGED <<events_cache, refresh_in_progress, cache_lock, clock, seen>>

\* Time passes.
Tick ==
    /\ \E i \in Instants : i > clock /\ clock' = i
    /\ UNCHANGED <<events_cache, refresh_in_progress, cache_lock, pc, frame, response, seen>>

\* The steps of a call in progress.
Progress(t) ==
    \/ GetEvents115(t)
    \/ RefreshCache45(t)
    \/ FetchEvents(t)
    \/ RefreshCache52(t)
    \/ RefreshCache54(t)
    \/ RefreshCache57(t)
    \/ GetEvents118(t)
    \/ GetEvents119(t)
    \/ RefreshNow279(t)
    \/ RefreshNow280(t)
    \/ Return(t)

Next ==
    \/ \E t \in Threads : CallGetEvents(t) \/ CallRefreshNow(t) \/ Progress(t)
    \/ Tick

Spec == Init /\ [][Next]_vars

\* The steps of a refresh between setting the busy flag and clearing it.
RefreshSteps(t) ==
    FetchEvents(t) \/ RefreshCache52(t) \/ RefreshCache54(t) \/ RefreshCache57(t)

\* A thread that has set the busy flag keeps running, and its fetch returns.
FairSpec == Spec /\ \A t \in Threads : WF_vars(RefreshSteps(t))

(***************************************************************************)
(* The pipeline on its own: one thread serves GET /api/events from a cache *)
(* that an earlier refresh filled with any list of InputLists, at any      *)
(* instant of ComposeInstants.                                             *)
(***************************************************************************)
\* The longest list drawn freely from a universe of events.
MaxEvents == 3

ComposeInstants == {60, 71, 80}

\* Date strings around the instants and around the 30-day cutoffs (780, 800).
ClassDates ==
    {NoDate, DateStr("empty", 0, 0), DateStr("garbage", 0, 0),
     Naive(50), Naive(60), Naive(61), Naive(80), Naive(100),
     Naive(780), Naive(781), Naive(800), Naive(801),
     Aware(62, 5), Aware(58, -3)}

ClassHeadings ==
    {S_Event, NoneStr, S_go_battle_league,
     <<"G", "O", " ", "B", "a", "t", "t", "l", "e", " ", "L", "e", "a", "g", "u", "e">>,
     <<" ", "G", "o", " ", "\t", "B", "a", "t", "t", "l", "e", " ", " ", "L", "e", "a", "g", "u", "e", " ">>,
     <<"G", "o", " ", "B", "a", "t", "t", "l", "e", " ", "L", "e", "a", "g", "u", "e", "s">>}

\* One event of every date pair and heading.
ClassifierInputs ==
    {<<Event(<<"A">>, h, s, e)>> : h \in ClassHeadings, s \in ClassDates, e \in ClassDates}

\* One current event of each category, and one upcoming event.
CategoryEvents ==
    {Event(<<"S">>, S_Season, Naive(50), Naive(100)),
     Event(<<"G">>, S_GOPass, Naive(50), Naive(110)),
     Event(<<"R">>, S_Research, Naive(50), Naive(120)),
     Event(<<"T">>, S_TimedResearch, Naive(50), Naive(130)),
     Event(<<"B">>, <<" ", "R", "a", "i", "d", " ", "\t", "B", "a", "t", "t", "l", "e", "s">>,
           Naive(50), Naive(140)),
     Event(<<"E">>, S_Event, Naive(50), Naive(150)),
     Event(<<"O">>, NoneStr, Naive(50), Naive(160)),
     Event(<<"U">>, S_Events, Naive(200), Naive(300))}

\* Events of one group with different and with equal end times, and
\* research events that tie on the end time.
OrderEvents ==
    {Event(<<"A">>, S_Event, Naive(50), Naive(100)),
     Event(<<"B">>, S_Event, Naive(50), Naive(90)),
     Event(<<"C">>, S_Event, Naive(55), Naive(90)),
     Event(<<"D">>, S_Event, Naive(50), Naive(80)),
     Event(<<"B">>, S_Research, Naive(50), Naive(90)),
     Event(<<"A">>, S_TimedResearch, Naive(50), Naive(90)),
     Event(<<"A">>, S_Research, Naive(50), Naive(90))}

\* Upcoming events that tie on the start time, on the category, on the name.
UpcomingInputs ==
    {Event(<<"B">>, S_Event, Naive(200), Naive(300)),
     Event(<<"A">>, S_Event, Naive(200), Naive(300)),
     Event(<<"A">>, S_Event, Naive(200), Naive(310)),
     Event(<<"A">>, S_RaidBattles, Naive(200), Naive(300)),
     Event(<<"Z">>, S_Season, Naive(150), Naive(300)),
     Event(<<"a">>, NoneStr, Naive(200), Naive(300))}

SeqsUpTo(U, n) == UNION {[1..k -> U] : k \in 0..n}

\* n events of one group whose end times differ.
Repeat(name, heading, start, n) ==
    [i \in 1..n |-> Event(name, heading, Naive(start), Naive(start + 100 + ((n - i) % 3)))]

\* Every group filled to k below or above its cut.
Filled(k) ==
    Repeat(<<"U">>, S_Event, 200, UPCOMING_MAX_ITEMS + k)
    \o Repeat(<<"E">>, S_Events, 50, GROUP_ITEMS + k)
    \o Repeat(<<"B">>, S_RaidBattles, 50, GROUP_ITEMS + k)
    \o Repeat(<<"T">>, S_TimedResearch, 50, RESEARCH_MAX_ITEMS \div 2)
    \o Repeat(<<"R">>, S_Research, 50, RESEARCH_MAX_ITEMS \div 2 + k)
    \o Repeat(<<"G">>, S_GOPass, 50, SPLIT_ITEMS + k)
    \o Repeat(<<"S">>, S_Season, 50, SPLIT_ITEMS + k)

LongLists == {Filled(0), Filled(1)}

InputLists ==
    ClassifierInputs \cup LongLists
    \cup SeqsUpTo(CategoryEvents, MaxEvents)
    \cup SeqsUpTo(OrderEvents, MaxEvents)
    \cup SeqsUpTo(UpcomingInputs, MaxEvents)

InitCompose ==
    /\ clock \in ComposeInstants
    /\ \E l \in InputLists :
          events_cache = [events |-> l,
                          last_updated |-> IF l = <<>> THEN None ELSE <<clock>>]
    /\ refresh_in_progress = FALSE
    /\ cache_lock = 0
    /\ pc = [t \in Threads |-> "idle"]
    /\ frame = [t \in Threads |-> IdleFrame]
    /\ response = [t \in Threads |-> NoResponse]
    /\ seen = {<<FALSE, events_cache.last_updated>>}

\* The steps of GET /api/events on thread t.
ReadSteps(t) ==
    \/ CallGetEvents(t)
    \/ GetEvents115(t)
    \/ RefreshCache45(t)
    \/ FetchEvents(t)
    \/ RefreshCache52(t)
    \/ RefreshCache54(t)
    \/ RefreshCache57(t)
    \/ GetEvents118(t)
    \/ GetEvents119(t)
    \/ Return(t)

NextCompose == ReadSteps(1)

SpecCompose == InitCompose /\ [][NextCompose]_vars

(***************************************************************************)
(* Vocabulary of the properties                                            *)
(***************************************************************************)
\* Thread t has finished GET /api/events and holds its response.
Done(t) == pc[t] = "returned" /\ frame[t].op = "get_events"

\* Thread t has finished POST /api/refresh and holds its response.
Refreshed(t) == pc[t] = "returned" /\ frame[t].op = "refresh_now"

\* Thread t has set the busy flag and not yet cleared it.
InRefresh(t) ==
    pc[t] \in {"fetch_events", "refresh_cache_52", "refresh_cache_54", "refresh_cache_57"}

\* Thread t takes a step.
Steps(t) == pc'[t] # pc[t]

IsSplit(s) == "type" \in DOMAIN s

IsFallback(s) == "value" \in DOMAIN s

IsResearch(s) == "maxItems" \in DOMAIN s /\ s.title = S_CurrentResearch

IsUpcoming(s) == "maxItems" \in DOMAIN s /\ s.title = S_UpcomingEvents

IsRaid(s) ==
    DOMAIN s = {"title", "subtitle", "items", "url"} /\ s.title = S_CurrentRaidBattles

IsCategory(s) ==
    DOMAIN s = {"title", "subtitle", "items", "url"} /\ s.title # S_CurrentRaidBattles

\* The place of a slide's kind in the rotation.
SlideRank(s) ==
    IF IsSplit(s) THEN 1
    ELSE IF IsResearch(s) THEN 2
    ELSE IF IsRaid(s) THEN 3
    ELSE IF IsCategory(s) THEN 4
    ELSE IF IsUpcoming(s) THEN 5
    ELSE 0

\* The item lists of a slide.
ItemLists(s) ==
    IF IsSplit(s) THEN {s.items, s.rightItems}
    ELSE IF IsFallback(s) THEN {}
    ELSE {s.items}

\* The hour an item's formatted start or end stands for (within the year).
ShownHour(f) == f.md * HoursPerDay + f.hm

(***************************************************************************)
(* C1                                                                      *)
(***************************************************************************)
\* C1: at most one fetch of the feed is in flight at any moment, and a
\* refresh call that finds the busy flag set returns at once, not started
\* (False, status "already_running"), without fetching.
C1_AtMostOneFetch ==
    /\ [](Cardinality({t \in Threads : pc[t] = "fetch_events"}) <= 1)
    /\ [](Cardinality({t \in Threads : InRefresh(t)}) <= 1)
    /\ [][\A t \in Threads :
            (pc[t] = "refresh_cache_45" /\ Steps(t) /\ refresh_in_progress)
            => /\ pc'[t] = ReturnSite(t)
               /\ frame'[t].did_start = FALSE
               /\ frame[t].op = "refresh_now" => pc'[t] = "refresh_now_279"]_vars
    /\ [](\A t \in Threads :
            Refreshed(t) =>
                response[t].status = (IF frame[t].did_start THEN "ok" ELSE "already_running"))

\* C1 witness: one refresh call has returned "already_running" while the
\* fetch of the other is still in flight.
C1_Witness ==
    \E t, u \in Threads :
        /\ pc[t] = "fetch_events"
        /\ Refreshed(u)
        /\ response[u].status = "already_running"

(***************************************************************************)
(* C2                                                                      *)
(***************************************************************************)
\* C2: a refresh whose fetch failed leaves the cached event list as it was
\* (a non-empty cache stays non-empty).
C2_FailedFetchKeepsEvents ==
    [][\A t \in Threads :
            (frame[t].fetch_failed /\ InRefresh(t) /\ Steps(t))
            => events_cache'.events = events_cache.events]_vars

(***************************************************************************)
(* C3                                                                      *)
(***************************************************************************)
\* C3 as stated: whenever the raw list a read used is empty, the output is
\* exactly the one slide "No current events"; the output is never empty.
C3_EmptyGivesPlaceholder ==
    \A t \in Threads :
        Done(t) =>
            /\ Len(response[t].slides) >= 1
            /\ frame[t].raw_events = <<>> => response[t].slides = <<NoEventsSlide>>

\* C3 amended: the output is never empty; for an empty raw list it is the
\* one slide "No current events" unless the local day is a Sunday, when it
\* is the one slide "Current Events" holding the Trade Day item.
C3_Fallback ==
    \A t \in Threads :
        Done(t) =>
            LET slides == response[t].slides
            IN  /\ Len(slides) >= 1
                /\ (frame[t].raw_events = <<>> /\ ~IsSunday(frame[t].now))
                   => slides = <<NoEventsSlide>>
                /\ (frame[t].raw_events = <<>> /\ IsSunday(frame[t].now))
                   => /\ Len(slides) = 1
                      /\ IsCategory(slides[1])
                      /\ slides[1].title = S_CurrentSp \o S_Events
                      /\ slides[1].items = <<EventToListItem(TradeDay(S_Events), NoneStr)>>
                /\ \A i \in 1..Len(slides) : IsFallback(slides[i]) => Len(slides) = 1

\* C3 witness: a read that used an empty raw list on a day that is no
\* Sunday returned the placeholder slide.
C3_Witness ==
    \E t \in Threads :
        /\ Done(t)
        /\ frame[t].raw_events = <<>>
        /\ ~IsSunday(frame[t].now)
        /\ response[t].slides = <<NoEventsSlide>>

(***************************************************************************)
(* C4                                                                      *)
(***************************************************************************)
\* The rule of the specification, section 4.3, written out on its own.
ReferenceClass(event, now) ==
    LET start == ParseDtUtc(event.start)
        end   == ParseDtUtc(event.end)
    IN  IF start = <<>> \/ end = <<>> THEN "discard"
        ELSE IF \E x \in EXCLUDED_HEADINGS : CaseFold(NormHeading(event.heading)) = CaseFold(x)
             THEN "discard"
        ELSE IF start[1] <= now /\ now <= end[1] THEN "current"
        ELSE IF now < start[1] /\ start[1] <= now + UPCOMING_WINDOW_DAYS * HoursPerDay
             THEN "upcoming"
        ELSE "discard"

\* C4: the classifier agrees with the reference rule on every raw event; the
\* current and the upcoming events are exactly the events the rule names, no
\* event is in both, and the response is the one the raw list gives with
\* its discarded events taken out (a discarded event is in no slide).
C4_Classifier ==
    \A t \in Threads :
        Done(t) =>
            LET raw  == frame[t].raw_events
                now  == frame[t].now
                ref  == [i \in 1..Len(raw) |-> ReferenceClass(raw[i], now)] \o <<>>
                ix   == [i \in 1..Len(raw) |-> i]
                pick(class) == LET m == SelectSeq(ix, LAMBDA i : ref[i] = class)
                               IN  [k \in 1..Len(m) |-> raw[m[k]]] \o <<>>
                cur  == CurrentEvents(raw, now) \o <<>>
                upc  == UpcomingEvents(raw, now) \o <<>>
            IN  /\ \A i \in 1..Len(raw) : Classify(raw[i], now) = ref[i]
                /\ cur = pick("current")
                /\ upc = pick("upcoming")
                /\ {cur[i] : i \in 1..Len(cur)} \cap {upc[j] : j \in 1..Len(upc)} = {}
                /\ LET m == SelectSeq(ix, LAMBDA i : ref[i] # "discard")
                   IN  response[t].slides = ComposeSlides([k \in 1..Len(m) |-> raw[m[k]]] \o <<>>, now)

\* C4 witness: a read has classified an event that is running now but whose
\* heading, once normalized and case-folded, is the excluded one, and
\* another read an event that starts exactly at the 30-day cutoff.
C4_Witness ==
    \E t \in Threads :
        /\ Done(t)
        /\ Len(frame[t].raw_events) = 1
        /\ LET e == frame[t].raw_events[1]
               now == frame[t].now
           IN  /\ ParseDtUtc(e.start) # <<>> /\ ParseDtUtc(e.end) # <<>>
               /\ ParseDtUtc(e.start)[1] = now /\ now <= ParseDtUtc(e.end)[1]
               /\ e.heading # S_go_battle_league
               /\ IsExcludedHeading(e.heading)
               /\ Classify(e, now) = "discard"
               /\ response[t].slides = <<NoEventsSlide>>

(***************************************************************************)
(* C5                                                                      *)
(***************************************************************************)
\* C5 as stated: no step of a read changes the cached event list.
C5_ReadNeverChangesCache ==
    [][\A t \in Threads :
            (frame[t].op = "get_events" /\ Steps(t))
            => events_cache'.events = events_cache.events]_vars

\* C5 amended: a read that finds the cache non-empty does not refresh and
\* changes nothing of the cache, and what it returns is a function of the
\* list it read and of now: it equals the response of any other read of the
\* same list at the same instant.
C5_ReadOnly ==
    /\ [][\A t \in Threads :
            (pc[t] = "get_events_115" /\ Steps(t) /\ events_cache.events # <<>>)
            => /\ pc'[t] = "get_events_119"
               /\ frame'[t].raw_events = events_cache.events
               /\ events_cache' = events_cache
               /\ refresh_in_progress' = refresh_in_progress]_vars
    /\ [][\A t \in Threads :
            (pc[t] = "get_events_119" /\ Steps(t))
            => /\ events_cache' = events_cache
               /\ refresh_in_progress' = refresh_in_progress
               /\ \A u \in Threads :
                     (Done(u) /\ frame[u].raw_events = frame[t].raw_events
                              /\ frame[u].now = clock)
                     => response'[t] = response[u]]_vars

\* C5 witness: two reads of the same non-empty cached list at the same
\* instant hold the same response, and the cache still holds that list.
C5_Witness ==
    \E t, u \in Threads :
        /\ t # u /\ Done(t) /\ Done(u)
        /\ frame[t].raw_events # <<>>
        /\ frame[t].raw_events = events_cache.events
        /\ frame[u].raw_events = events_cache.events
        /\ frame[t].now = frame[u].now
        /\ response[t] = response[u]

C7_FlagCleared ==
    /\ []((\A t \in Threads : ~InRefresh(t)) => ~refresh_in_progress)
    /\ [][\A t \in Threads :
            (InRefresh(t) /\ Steps(t) /\ ~InRefresh(t)')
            => /\ ~refresh_in_progress'
               /\ pc'[t] = ReturnSite(t)]_vars
    /\ (refresh_in_progress ~> ~refresh_in_progress)

\* C7 witness: a refresh whose fetch failed has run to its end and the flag
\* is false again, a second call being about to test the flag.
C7_Witness ==
    \E t, u \in Threads :
        /\ Refreshed(t)
        /\ response[t].status = "ok"
        /\ events_cache.events = <<>>
        /\ ~refresh_in_progress
        /\ pc[u] = "refresh_cache_45"

(***************************************************************************)
(* C8                                                                      *)
(***************************************************************************)
\* C8: the slides come in the order split slide, "Current research", Raid
\* Battles, the category slides in strictly ascending order of the category
\* key, "Upcoming events"; each of the four special slides at most once.
C8_SlideOrder ==
    \A t \in Threads :
        Done(t) =>
            LET slides == response[t].slides
            IN  \A i, j \in 1..Len(slides) :
                    i < j =>
                        /\ SlideRank(slides[i]) >= 1
                        /\ SlideRank(slides[i]) <= SlideRank(slides[j])
                        /\ SlideRank(slides[i]) = SlideRank(slides[j])
                           => /\ IsCategory(slides[i])
                              /\ StrLess(slides[i].subtitle, slides[j].subtitle)
                              /\ slides[i].title = S_CurrentSp \o slides[i].subtitle

\* C8 witness: a Sunday response with the split slide, then two category
\* slides whose groups were made in descending order of their keys ("Other"
\* by an event, "Events" by the Trade Day item), then the upcoming slide.
C8_Witness ==
    \E t \in Threads :
        /\ Done(t)
        /\ IsSunday(frame[t].now)
        /\ Len(frame[t].raw_events) = 3
        /\ HeadingOf(frame[t].raw_events[1]) = S_Other
        /\ HeadingOf(frame[t].raw_events[2]) = S_Season
        /\ Classify(frame[t].raw_events[3], frame[t].now) = "upcoming"
        /\ LET slides == response[t].slides
           IN  /\ Len(slides) = 4
               /\ IsSplit(slides[1])
               /\ IsCategory(slides[2]) /\ slides[2].subtitle = S_Events
               /\ IsCategory(slides[3]) /\ slides[3].subtitle = S_Other
               /\ IsUpcoming(slides[4])

(***************************************************************************)
(* C10                                                                     *)
(***************************************************************************)
\* The events of raw that share a slide differ in the key the slide is
\* sorted by.
KeysDiffer(raw, now) ==
    \A i, j \in 1..Len(raw) :
        i < j =>
            /\ (Classify(raw[i], now) = "current" /\ Classify(raw[j], now) = "current"
                /\ (HeadingOf(raw[i]) = HeadingOf(raw[j])
                    \/ {HeadingOf(raw[i]), HeadingOf(raw[j])} = {S_Research, S_TimedResearch}))
               => ParseDtUtc(raw[i].end) # ParseDtUtc(raw[j].end)
            /\ (Classify(raw[i], now) = "upcoming" /\ Classify(raw[j], now) = "upcoming")
               => <<ParseDtUtc(raw[i].start), HeadingOf(raw[i]), raw[i].name>>
                  # <<ParseDtUtc(raw[j].start), HeadingOf(raw[j]), raw[j].name>>

\* C10: in every slide of current events the items that show an end time
\* stand in ascending order of it (the Trade Day item shows none); in
\* "Upcoming events" the items stand in ascending order of (start,
\* category, name); so a raw list whose events differ in these keys gives
\* the same response in every order of its events.
C10_ItemOrder ==
    \A t \in Threads :
        Done(t) =>
            LET slides == response[t].slides
                raw    == frame[t].raw_events
                now    == frame[t].now
            IN  /\ \A k \in 1..Len(slides) :
                      \A items \in ItemLists(slides[k]) :
                          \A i, j \in 1..Len(items) :
                              i < j =>
                                  IF IsUpcoming(slides[k])
                                  THEN KeyLeq(SortKey(ShownHour(items[i].value[1]),
                                                      items[i].subtitle, items[i].title),
                                              SortKey(ShownHour(items[j].value[1]),
                                                      items[j].subtitle, items[j].title))
                                  ELSE (items[i].value[2].fmt /\ items[j].value[2].fmt)
                                       => ShownHour(items[i].value[2]) <= ShownHour(items[j].value[2])
                /\ (Len(raw) <= MaxEvents /\ KeysDiffer(raw, now))
                   => \A p \in Permutations(1..Len(raw)) :
                          ComposeSlides([i \in 1..Len(raw) |-> raw[p[i]]], now) = slides

\* C10 witness: on a Sunday, two events of the group "Event" fed latest
\* ending first come out soonest ending first, next to the Trade Day item.
C10_Witness ==
    \E t \in Threads :
        /\ Done(t)
        /\ IsSunday(frame[t].now)
        /\ Len(frame[t].raw_events) = 2
        /\ KeysDiffer(frame[t].raw_events, frame[t].now)
        /\ frame[t].raw_events[1].name = <<"A">>
        /\ frame[t].raw_events[2].name = <<"B">>
        /\ Len(response[t].slides) = 1
        /\ LET items == response[t].slides[1].items
           IN  /\ Len(items) = 3
               /\ items[1].title = S_TradeDay
               /\ items[2].title = <<"B">>
               /\ items[3].title = <<"A">>

(***************************************************************************)
(* C9                                                                      *)
(***************************************************************************)
\* C9: the in_progress and last_updated of a refresh response come from one
\* single state of the cache: the pair is one the cache has held.
C9_OneCacheState ==
    \A t \in Threads :
        Refreshed(t) => <<response[t].in_progress, response[t].last_updated>> \in seen

====
